---- MODULE Spec2Model ----
(***************************************************************************)
(* Model of the analysis core of package-analysis:                         *)
(*   - RunDynamicAnalysis (internal/worker/rundynamic.go): the walk over   *)
(*     the run phases of a package inside the sandbox;                     *)
(*   - runParser / parseJS (staticanalysis parsing): the adapter around    *)
(*     the external JavaScript parser process.                             *)
(* The two components share no state; each has its own specification       *)
(* (Spec for the walk, SpecParse for the adapter).                         *)
(***************************************************************************)
EXTENDS Integers, Sequences, FiniteSets, TLC

\* ------------------------------------------------------------------ bounds
\* longest phase sequence returned by pkg.Manager().RunPhases()
MaxPhases == 3

\* capacity, in bytes, of the buffer of an OS pipe (scaled down)
PipeCap == 2

\* longest in-memory source handed to parseJS: one byte more than the pipe holds
MaxSource == PipeCap + 1

\* longest JSON array the parser process writes
MaxRecords == 2

\* ------------------------------------------------------- values and inputs
\* Go's nil error
Nil == "<nil>"

\* pkgecosystem.RunPhase values; the zero value of the string type is ""
Phases == {"import", "install", "execute"}

ZeroPhase == ""

\* analysis.Status values; the zero value is ""
StatusCompleted == "completed"

Statuses == {StatusCompleted, "error_timeout", "error_other"}

EmptyStatus == ""

\* errors dynamicanalysis.Run can return (sandbox / runtime infrastructure)
SandboxErrors == {"sandbox init failed", "sandbox run failed"}

\* all sequences over S of length at most n
SeqsUpTo(S, n) == UNION {[1..k -> S] : k \in 0..n}

\* the phase sequences pkg.Manager().RunPhases() may supply: any finite
\* ordered sequence of run phases (the slice type enforces nothing else)
PhaseSeqs == SeqsUpTo(Phases, MaxPhases)

VARIABLES
  \* ---- RunDynamicAnalysis
  phases,        \* pkg.Manager().RunPhases()
  idx,           \* position of the range loop in phases (1-based)
  pc,            \* control position of RunDynamicAnalysis
  results,       \* DynamicAnalysisResults under construction
  lastRunPhase,
  lastStatus,
  lastError,
  calls,         \* history: invocations of dynamicanalysis.Run, in order
  outcomes,      \* history: what each invocation returned, in order
  reports,       \* history: reports logged (LogDynamicAnalysis*)
  \* ---- runParser / parseJS
  filePath,      \* parseJS argument filePath (runParser's jsFilePath)
  jsSource,      \* parseJS argument sourceString (runParser's jsSource)
  ppc,           \* control position of parseJS / runParser
  nodeArgs,      \* arguments of the node command
  pipeState,     \* stdin pipe of cmd: "none", "open", "closed"
  pipeBuf,       \* bytes written to the stdin pipe so far
  procState,     \* parser process: "notStarted", "running", "exited"
  proc,          \* history: exit code and output of the parser process
  rpOut,         \* runParser's returned string
  rpErr,         \* runParser's returned error
  storage,       \* parseJS: the decoded []parserOutputElement
  result,        \* parseJS named result: parserOutput struct
  parserOutput,  \* parseJS named result: string
  err            \* parseJS named result: error

dynVars == <<phases, idx, pc, results, lastRunPhase, lastStatus, lastError,
             calls, outcomes, reports>>

parseVars == <<filePath, jsSource, ppc, nodeArgs, pipeState, pipeBuf, procState,
               proc, rpOut, rpErr, storage, result, parserOutput, err>>

\* ------------------------------------------------------------ map helpers
EmptyMap == <<>>

\* Go's m[k] = v
MapSetDropOthers(m, k, v) == (k :> v)

MapSet(m, k, v) == (k :> v) @@ m

Keys(m) == DOMAIN m

\* ------------------------------------------------------ RunDynamicAnalysis
\* the value of `result` returned by the n-th invocation of
\* dynamicanalysis.Run with completion status s.  Each loop iteration
\* declares a fresh `result`, so &result.StraceSummary and
\* &result.FileWrites are distinct per invocation: id is that identity.
RunResult(n, s) ==
  [StraceSummary |-> [Status |-> s, id |-> n], FileWrites |-> [id |-> n]]

\* the result value that accompanies a non-nil error
NoResult == RunResult(0, EmptyStatus)

InitDynamic ==
  /\ phases \in PhaseSeqs
  /\ idx = 1
  /\ pc = "loop"
  /\ results = [StraceSummary |-> EmptyMap, FileWrites |-> EmptyMap]
  /\ lastRunPhase = ZeroPhase
  /\ lastStatus = EmptyStatus
  /\ lastError = Nil
  /\ calls = <<>>
  /\ outcomes = <<>>
  /\ reports = <<>>

\* line 49-50: the loop takes the next phase and calls dynamicanalysis.Run
\* with the command of that phase; the call is in flight until it returns
CallSandbox ==
  /\ pc = "loop"
  /\ idx <= Len(phases)
  /\ calls' = Append(calls, [pos |-> idx, phase |-> phases[idx]])
  /\ pc' = "running"
  /\ UNCHANGED <<parseVars, phases, idx, results, lastRunPhase, lastStatus, lastError,
                 outcomes, reports>>

\* lines 61-62: record both parts of the result under the phase
RecordResultSkipFileWrites(res, phase, r) ==
  [res EXCEPT !.StraceSummary = MapSet(res.StraceSummary, phase, r.StraceSummary)]

RecordResult(res, phase, r) ==
  [StraceSummary |-> MapSet(res.StraceSummary, phase, r.StraceSummary),
   FileWrites    |-> MapSet(res.FileWrites, phase, r.FileWrites)]

\* line 65: the walk goes on to the next phase only after a completed one
ContinueWalkAlways(status) == TRUE

ContinueWalkUnlessTimeout(status) == status /= "error_timeout"

ContinueWalk(status) == status = StatusCompleted

\* lines 50-51, 61-69: dynamicanalysis.Run returns a result and a nil error
SandboxReturnsResult(s) ==
  /\ pc = "running"
  /\ LET r == RunResult(Len(calls), s)
         phase == phases[idx]
     IN /\ outcomes' = Append(outcomes, [err |-> Nil, result |-> r])
        /\ lastRunPhase' = phase
        /\ results' = RecordResult(results, phase, r)
        /\ lastStatus' = r.StraceSummary.Status
        /\ IF ContinueWalk(r.StraceSummary.Status)
             THEN /\ idx' = idx + 1
                  /\ pc' = "loop"
             ELSE /\ idx' = idx
                  /\ pc' = "report"
  /\ UNCHANGED <<parseVars, phases, lastError, calls, reports>>

\* lines 56-57: the assignments of the error branch
ErrorBranchKeepStatus(e, status) == [lastStatus |-> status, lastError |-> e]

ErrorBranch(e, status) == [lastStatus |-> EmptyStatus, lastError |-> e]

\* lines 50-59: dynamicanalysis.Run returns a non-nil error
SandboxReturnsError(e) ==
  /\ pc = "running"
  /\ outcomes' = Append(outcomes, [err |-> e, result |-> NoResult])
  /\ lastRunPhase' = phases[idx]
  /\ lastStatus' = ErrorBranch(e, lastStatus).lastStatus
  /\ lastError' = ErrorBranch(e, lastStatus).lastError
  /\ pc' = "report"
  /\ UNCHANGED <<parseVars, phases, idx, results, calls, reports>>

\* line 49/70: the range loop is exhausted
LoopExit ==
  /\ pc = "loop"
  /\ idx > Len(phases)
  /\ pc' = "report"
  /\ UNCHANGED <<parseVars, phases, idx, results, lastRunPhase, lastStatus, lastError,
                 calls, outcomes, reports>>

\* lines 72-76: the report made for the final phase, status and error:
\* LogDynamicAnalysisError(pkg, phase, e) when the error is non-nil, else
\* LogDynamicAnalysisResult(pkg, phase, status)
ReportForAlwaysResult(phase, status, e) ==
  [kind |-> "result", phase |-> phase, status |-> status, error |-> Nil]

ReportForAlwaysError(phase, status, e) ==
  [kind |-> "error", phase |-> phase, status |-> EmptyStatus, error |-> e]

ReportFor(phase, status, e) ==
  IF e /= Nil
    THEN [kind |-> "error", phase |-> phase, status |-> EmptyStatus, error |-> e]
    ELSE [kind |-> "result", phase |-> phase, status |-> status, error |-> Nil]

\* lines 72-76: one report, chosen by lastError
Report ==
  /\ pc = "report"
  /\ reports' = Append(reports, ReportFor(lastRunPhase, lastStatus, lastError))
  /\ pc' = "return"
  /\ UNCHANGED <<parseVars, phases, idx, results, lastRunPhase, lastStatus, lastError,
                 calls, outcomes>>

\* line 78: return results, lastRunPhase, lastStatus, lastError
Return ==
  /\ pc = "return"
  /\ pc' = "done"
  /\ UNCHANGED <<parseVars, phases, idx, results, lastRunPhase, lastStatus, lastError,
                 calls, outcomes, reports>>

\* ------------------------------------------------- runParser and parseJS
\* ---- texts (Go strings holding process output)
\* A text is described by what the JSON decoder makes of it (form), the
\* records of the JSON array it starts with (items) and its wording (msg):
\*   "empty"     the empty string
\*   "plain"     text that is not JSON (a diagnostic message, garbage)
\*   "array"     a JSON array of objects
\*   "trailing"  a JSON array of objects followed by further non-JSON text
\*   "truncated" a JSON array cut off before its closing bracket
\*   "null"      the JSON value null
\*   "scalar"    a JSON value that is neither an array nor null
Text(form, items, msg) == [form |-> form, items |-> items, msg |-> msg]

EmptyString == Text("empty", <<>>, "")

\* ---- errors of the adapter (Go error values)
\* kind: "nil", "ExitError" (*exec.ExitError), "exec" (the process could not
\* be started), "pipe", "write", "close" (the errors runParser wraps), "json"
GoError(kind, code, stderrText, msg) ==
  [kind |-> kind, code |-> code, Stderr |-> stderrText, msg |-> msg]

NoError == GoError("nil", 0, EmptyString, "")

ExitError(code, stderrText) == GoError("ExitError", code, stderrText, "exit status")

\* line 29
syntaxErrorExitCode == 33

\* exit codes of the parser process (ExitCode() is -1 for a process killed by a signal)
ExitCodes == {-1, 0, 1, syntaxErrorExitCode}

\* ---- JSON values on the wire and Go values decoded from them
\* t: "string", "number", "bool", "null", "absent"; v: the characters of
\* the value's text
JV(t, v) == [t |-> t, v |-> v]

Absent == JV("absent", <<>>)

JNull == JV("null", <<>>)

JStr(v) == JV("string", v)

JNum(v) == JV("number", v)

JTrue == JV("bool", <<"t">>)

JFalse == JV("bool", <<"f">>)

\* a Go value of static type `any`: t is its dynamic type as fmt's %T
\* prints it, v its text, n its magnitude when it is a big.Int
GoValue(t, v, n) == [t |-> t, v |-> v, n |-> n]

GoNil == GoValue("<nil>", <<>>, 0)

\* encoding/json decoding a JSON value into a variable of type `any`
\* (line 18, line 20): string -> string, number -> float64, bool -> bool,
\* null or a missing key -> nil
DecodeAny(j) ==
  CASE j.t = "string" -> GoValue("string", j.v, 0)
    [] j.t = "number" -> GoValue("float64", j.v, 0)
    [] j.t = "bool"   -> GoValue("bool", j.v, 0)
    [] OTHER          -> GoNil

\* encoding/json decoding a JSON value into a Go string (lines 16-17):
\* a JSON string is stored, null or a missing key leaves the zero value,
\* any other JSON type is an UnmarshalTypeError and leaves the zero value
DecodeString(j) ==
  CASE j.t = "string"            -> [val |-> j.v, ok |-> TRUE]
    [] j.t \in {"null", "absent"} -> [val |-> <<>>, ok |-> TRUE]
    [] OTHER                     -> [val |-> <<>>, ok |-> FALSE]

\* the position on the wire: a JSON array of integers (t = "array") or a
\* value of another JSON type; decoding into [2]int (line 19) zero-fills a
\* short array and drops the elements beyond the second
WirePos(t, v) == [t |-> t, v |-> v]

DecodePos(p) ==
  IF p.t = "array"
    THEN [val |-> <<IF Len(p.v) >= 1 THEN p.v[1] ELSE 0,
                    IF Len(p.v) >= 2 THEN p.v[2] ELSE 0>>, ok |-> TRUE]
    ELSE [val |-> <<0, 0>>, ok |-> p.t \in {"null", "absent"}]

\* the "extra" object on the wire: present or not, with its "raw" and
\* "array" members; decoding into map[string]any (line 20)
WireExtra(present, raw, array) == [present |-> present, raw |-> raw, array |-> array]

NoExtra == WireExtra(FALSE, Absent, Absent)

\* Go's m[key] on the decoded map: nil for a nil map or a missing key
ExtraLookup(extra, key) ==
  IF ~extra.present THEN GoNil
  ELSE IF key = "raw" THEN DecodeAny(extra.raw)
  ELSE DecodeAny(extra.array)

\* ---- records written by the parser process (one JSON object each)
WireElement(type, subtype, data, pos, extra) ==
  [type |-> type, subtype |-> subtype, data |-> data, pos |-> pos, extra |-> extra]

\* parserOutputElement, lines 15-21
OutputElement(type, subtype, data, pos, extra) ==
  [SymbolType |-> type, SymbolSubtype |-> subtype, Data |-> data, Pos |-> pos,
   Extra |-> extra]

\* decoding one JSON object into a parserOutputElement: every member is
\* decoded on its own; a member of the wrong JSON type leaves its field
\* zero and makes the whole Decode return an UnmarshalTypeError, while
\* the other members and the following objects are still decoded
DecodeElement(w) ==
  LET ty  == DecodeString(w.type)
      sub == DecodeString(w.subtype)
      pos == DecodePos(w.pos)
  IN [elem |-> OutputElement(ty.val, sub.val, DecodeAny(w.data), pos.val, w.extra),
      ok   |-> ty.ok /\ sub.ok /\ pos.ok]

\* lines 90-92: json.NewDecoder(...).Decode(&storage) reads the first JSON
\* value of the text; text after that value is not looked at.  A syntax
\* error is found before anything is stored.
Decode(text) ==
  CASE text.form \in {"array", "trailing"} ->
         LET d == [i \in 1..Len(text.items) |-> DecodeElement(text.items[i])]
         IN [storage |-> [i \in 1..Len(d) |-> d[i].elem],
             err |-> IF \A i \in 1..Len(d) : d[i].ok
                       THEN NoError
                       ELSE GoError("json", 0, EmptyString, "UnmarshalTypeError")]
    [] text.form = "null" -> [storage |-> <<>>, err |-> NoError]
    [] text.form = "empty" ->
         [storage |-> <<>>, err |-> GoError("json", 0, EmptyString, "EOF")]
    [] text.form = "scalar" ->
         [storage |-> <<>>, err |-> GoError("json", 0, EmptyString, "UnmarshalTypeError")]
    [] OTHER ->
         [storage |-> <<>>, err |-> GoError("json", 0, EmptyString, "SyntaxError")]

\* ---- symbol kinds and identifier classification
\* the SymbolType tags of the parser's output
Identifier == <<"Identifier">>

Literal == <<"Literal">>

Comment == <<"Comment">>

Info == <<"Info">>

Error == <<"Error">>

\* token.CheckIdentifierType: the fixed classification table; a subtype
\* the table does not know classifies as "Unknown"
KnownIdentifierTypes == {"Function", "Variable", "Parameter", "Class", "Member",
                         "Property", "StatementLabel", "Other"}

CheckIdentifierType(subtype) ==
  IF Len(subtype) = 1 /\ subtype[1] \in KnownIdentifierTypes
    THEN subtype[1]
    ELSE "Unknown"

\* ---- big.Int.SetString(s, 0), line 125
\* value of a digit character; letters count from 10, anything else is no digit
DigitValue(c) ==
  CASE c = "0" -> 0 [] c = "1" -> 1 [] c = "2" -> 2 [] c = "3" -> 3
    [] c = "4" -> 4 [] c = "5" -> 5 [] c = "6" -> 6 [] c = "7" -> 7
    [] c = "8" -> 8 [] c = "9" -> 9
    [] c \in {"a", "A"} -> 10 [] c \in {"b", "B"} -> 11
    [] c \in {"c", "C"} -> 12 [] c \in {"d", "D"} -> 13
    [] c \in {"e", "E"} -> 14 [] c \in {"f", "F"} -> 15
    [] c = "n" -> 23 [] c = "o" -> 24 [] c = "x" -> 33
    [] OTHER -> 99

\* the digit loop of the scanner: stops at the first character that is no
\* digit of base b; "_" may only follow a digit or the base prefix
RECURSIVE ScanDigits(_, _, _, _, _, _, _)
ScanDigits(s, i, b, prev, inval, count, acc) ==
  IF i > Len(s)
    THEN [i |-> i, prev |-> prev, inval |-> inval, count |-> count, acc |-> acc]
  ELSE IF s[i] = "_"
    THEN ScanDigits(s, i + 1, b, "_", inval \/ prev /= "0", count, acc)
  ELSE IF DigitValue(s[i]) >= b
    THEN [i |-> i, prev |-> prev, inval |-> inval, count |-> count, acc |-> acc]
  ELSE ScanDigits(s, i + 1, b, "0", inval, count + 1, acc * b + DigitValue(s[i]))

\* base 0: the base comes from the prefix, "0b", "0o", "0x" or a leading
\* "0" (octal); without a prefix it is 10.  start is where the digits begin.
ScanPrefix(s) ==
  IF Len(s) >= 1 /\ s[1] = "0"
    THEN IF Len(s) = 1
           THEN [b |-> 10, prefix |-> "", start |-> 2, prev |-> "0", count |-> 1]
         ELSE IF s[2] \in {"b", "B"}
           THEN [b |-> 2, prefix |-> "b", start |-> 3, prev |-> "0", count |-> 0]
         ELSE IF s[2] \in {"o", "O"}
           THEN [b |-> 8, prefix |-> "o", start |-> 3, prev |-> "0", count |-> 0]
         ELSE IF s[2] \in {"x", "X"}
           THEN [b |-> 16, prefix |-> "x", start |-> 3, prev |-> "0", count |-> 0]
         ELSE [b |-> 8, prefix |-> "0", start |-> 2, prev |-> "0", count |-> 0]
    ELSE [b |-> 10, prefix |-> "", start |-> 1, prev |-> ".", count |-> 0]

\* the whole text must be one optionally signed integer literal
SetString(s) ==
  IF Len(s) = 0 THEN [valid |-> FALSE, n |-> 0]
  ELSE
    LET neg  == s[1] = "-"
        body == IF s[1] \in {"+", "-"} THEN Tail(s) ELSE s
        p    == ScanPrefix(body)
        d    == ScanDigits(body, p.start, p.b, p.prev, FALSE, p.count, 0)
        ok   == /\ ~(d.inval \/ d.prev = "_")
                /\ (d.count > 0 \/ p.prefix = "0")
                /\ d.i > Len(body)
    IN [valid |-> ok, n |-> IF ok THEN (IF neg THEN 0 - d.acc ELSE d.acc) ELSE 0]

\* ---- the result of parseJS
\* the zero value of the parserOutput struct
ZeroResult ==
  [ValidInput |-> FALSE, Identifiers |-> <<>>, Literals |-> <<>>, Comments |-> <<>>]

\* parsing.InvalidInput: the result flagged invalid, with no content
InvalidInput ==
  [ValidInput |-> FALSE, Identifiers |-> <<>>, Literals |-> <<>>, Comments |-> <<>>]

\* x.(string): the assertion holds only for a value of dynamic type string
IsString(x) == x.t = "string"

\* lines 121-130, parsing the raw text of the literal instead of its value
BigIntFixupFromRaw(literal) ==
  IF literal.Type = <<"Numeric">> /\ literal.GoType = "string"
       /\ SetString(literal.RawValue).valid
    THEN [literal EXCEPT !.Value = GoValue("*big.Int", <<>>, SetString(literal.RawValue).n),
                         !.GoType = "big.Int"]
    ELSE literal

\* lines 121-130: a Numeric literal whose value arrived as text becomes a
\* big.Int when the text parses as an integer
BigIntFixup(literal) ==
  IF literal.Type = <<"Numeric">> /\ literal.GoType = "string"
       /\ IsString(literal.Value) /\ SetString(literal.Value.v).valid
    THEN [literal EXCEPT !.Value = GoValue("*big.Int", <<>>, SetString(literal.Value.v).n),
                         !.GoType = "big.Int"]
    ELSE literal

\* lines 138-143: Info and Error records are ignored, a record of any other
\* kind is logged as a warning; the loop goes on with the result as it is
UnhandledKindAborts(res) == [result |-> res, panicked |-> TRUE]

UnhandledKind(res) == [result |-> res, panicked |-> FALSE]

\* line 104: identifiers classified Other or Unknown are left out
DropsIdentifierUnknownOnly(class) == class = "Unknown"

DropsIdentifier(class) == class = "Other" \/ class = "Unknown"

\* lines 101-144: one iteration of the conversion loop; an unchecked type
\* assertion on a value of another type panics
DispatchElement(element, res) ==
  CASE element.SymbolType = Identifier ->
         IF DropsIdentifier(CheckIdentifierType(element.SymbolSubtype))
           THEN [result |-> res, panicked |-> FALSE]
         ELSE IF ~IsString(element.Data)
           THEN [result |-> res, panicked |-> TRUE]
         ELSE [result |-> [res EXCEPT !.Identifiers = Append(@,
                             [Type |-> CheckIdentifierType(element.SymbolSubtype),
                              Name |-> element.Data.v,
                              Pos  |-> element.Pos])],
               panicked |-> FALSE]
    [] element.SymbolType = Literal ->
         IF ~IsString(ExtraLookup(element.Extra, "raw"))
           THEN [result |-> res, panicked |-> TRUE]
         ELSE [result |-> [res EXCEPT !.Literals = Append(@, BigIntFixup(
                             [Type     |-> element.SymbolSubtype,
                              GoType   |-> element.Data.t,
                              Value    |-> element.Data,
                              RawValue |-> ExtraLookup(element.Extra, "raw").v,
                              InArray  |-> ExtraLookup(element.Extra, "array")
                                             = GoValue("bool", <<"t">>, 0),
                              Pos      |-> element.Pos]))],
               panicked |-> FALSE]
    [] element.SymbolType = Comment ->
         IF ~IsString(element.Data)
           THEN [result |-> res, panicked |-> TRUE]
         ELSE [result |-> [res EXCEPT !.Comments = Append(@,
                             [Type |-> element.SymbolSubtype,
                              Data |-> element.Data.v,
                              Pos  |-> element.Pos])],
               panicked |-> FALSE]
    [] OTHER -> UnhandledKind(res)

\* lines 100-145: the loop over storage, from element i on
RECURSIVE Dispatch(_, _, _)
Dispatch(st, i, res) ==
  IF i > Len(st)
    THEN [result |-> res, panicked |-> FALSE]
    ELSE LET step == DispatchElement(st[i], res)
         IN IF step.panicked THEN step ELSE Dispatch(st, i + 1, step.result)

\* what parseJS hands back: its three named results, the decoded storage,
\* and whether it panicked instead of returning
Outcome(res, out, e, st, panicked) ==
  [result |-> res, parserOutput |-> out, err |-> e, storage |-> st,
   panicked |-> panicked]

\* line 81: the exit code that stands for a syntax error
IsSyntaxErrorExitAny(e) == e.code /= 0

IsSyntaxErrorExitOne(e) == e.code = 1

IsSyntaxErrorExit(e) == e.code = syntaxErrorExitCode

\* lines 79-87: runParser returned an error
HandleRunErrorKeepOutput(out, e) ==
  IF e.kind = "ExitError" /\ IsSyntaxErrorExit(e)
    THEN Outcome(InvalidInput, EmptyString, NoError, <<>>, FALSE)
    ELSE Outcome(ZeroResult, out, e, <<>>, FALSE)

HandleRunError(out, e) ==
  IF e.kind = "ExitError"
    THEN IF IsSyntaxErrorExit(e)
           THEN Outcome(InvalidInput, EmptyString, NoError, <<>>, FALSE)
           ELSE Outcome(ZeroResult, e.Stderr, e, <<>>, FALSE)
    ELSE Outcome(ZeroResult, out, e, <<>>, FALSE)

\* lines 93-97: a decode error returns before anything is converted
HandleDecodedIgnoreError(out, d) ==
  LET conv == Dispatch(d.storage, 1, [ZeroResult EXCEPT !.ValidInput = TRUE])
  IN Outcome(conv.result, out, d.err, d.storage, conv.panicked)

HandleDecoded(out, d) ==
  IF d.err /= NoError
    THEN Outcome(ZeroResult, out, d.err, d.storage, FALSE)
    ELSE LET conv == Dispatch(d.storage, 1, [ZeroResult EXCEPT !.ValidInput = TRUE])
         IN Outcome(conv.result, out, NoError, d.storage, conv.panicked)

\* lines 78-147: parseJS once runParser has returned (out, e)
ParseJS(out, e) ==
  IF e /= NoError
    THEN HandleRunError(out, e)
    ELSE HandleDecoded(out, Decode(out))

\* ---- inputs of the adapter and behaviour of the parser process
parserPath == "parser.js"

\* parseJS's filePath argument: empty (use the source string) or a path
FilePaths == {"", "input.js"}

\* parseJS's sourceString argument, as bytes
Sources == SeqsUpTo({"s"}, MaxSource)

\* a sample of the records the parser process can write
WireElements ==
  { WireElement(JStr(Identifier), JStr(<<"Function">>), JStr(<<"f">>),
                WirePos("array", <<1, 4>>), NoExtra),
    WireElement(JStr(Identifier), JStr(<<"Parameter">>), JStr(<<"p">>),
                WirePos("array", <<1, 6>>), NoExtra),
    WireElement(JStr(Identifier), JStr(<<"Other">>), JStr(<<"g">>),
                WirePos("array", <<2, 0>>), NoExtra),
    WireElement(JStr(Identifier), JStr(<<"Gibberish">>), JNum(<<"1">>),
                WirePos("array", <<2, 6>>), NoExtra),
    WireElement(JStr(Identifier), JStr(<<"Variable">>), JNum(<<"5">>),
                WirePos("array", <<3, 0>>), NoExtra),
    WireElement(JStr(Identifier), JStr(<<"Variable">>), JStr(<<"v">>),
                WirePos("string", <<>>), NoExtra),
    WireElement(JStr(Literal), JStr(<<"String">>), JStr(<<"a">>),
                WirePos("array", <<4, 2>>),
                WireExtra(TRUE, JStr(<<"'", "a", "'">>), JTrue)),
    WireElement(JStr(Literal), JStr(<<"Numeric">>), JNum(<<"7">>),
                WirePos("array", <<5, 1>>),
                WireExtra(TRUE, JStr(<<"7">>), Absent)),
    WireElement(JStr(Literal), JStr(<<"Numeric">>), JStr(<<"1", "9">>),
                WirePos("array", <<6, 1>>),
                WireExtra(TRUE, JStr(<<"1", "9", "n">>), JFalse)),
    WireElement(JStr(Literal), JStr(<<"String">>), JStr(<<"b">>),
                WirePos("array", <<7, 1>>), NoExtra),
    WireElement(JStr(Literal), JStr(<<"Numeric">>), JStr(<<"0", "x", "1", "f">>),
                WirePos("array", <<7, 5>>),
                WireExtra(TRUE, JStr(<<"0", "x", "1", "f", "n">>), JStr(<<"true">>))),
    WireElement(JStr(Literal), JStr(<<"Numeric">>), JStr(<<"1", ".", "5">>),
                WirePos("array", <<7, 9>>),
                WireExtra(TRUE, JStr(<<"1", ".", "5">>), Absent)),
    WireElement(JStr(Comment), JStr(<<"Line">>), JStr(<<"todo">>),
                WirePos("array", <<8, 0>>), NoExtra),
    WireElement(JStr(Comment), JStr(<<"Block">>), JNull,
                WirePos("array", <<9, 0>>), NoExtra),
    WireElement(JStr(Info), JStr(<<"Note">>), JStr(<<"i">>),
                WirePos("array", <<0, 0>>), NoExtra),
    WireElement(JStr(Error), JStr(<<"Recovered">>), JStr(<<"e">>),
                WirePos("array", <<0, 1>>), NoExtra),
    WireElement(JStr(<<"Whitespace">>), Absent, Absent,
                WirePos("absent", <<>>), NoExtra) }

\* what the process may write to standard output
Stdouts ==
  {Text(form, items, "") : form \in {"array", "trailing", "truncated"},
                           items \in SeqsUpTo(WireElements, MaxRecords)}
  \cup {EmptyString, Text("null", <<>>, ""), Text("scalar", <<>>, ""),
        Text("plain", <<>>, "SyntaxError: unexpected token")}

\* what cmd.Output() captures of the process's standard error (ExitError.Stderr)
Stderrs == {EmptyString, Text("plain", <<>>, "node: fatal error")}

\* the process before it has exited
NoProc == [code |-> 0, stdout |-> EmptyString, stderr |-> EmptyString]

InitParse ==
  /\ filePath \in FilePaths
  /\ jsSource \in Sources
  /\ ppc = "start"
  /\ nodeArgs = <<>>
  /\ pipeState = "none"
  /\ pipeBuf = <<>>
  /\ procState = "notStarted"
  /\ proc = NoProc
  /\ rpOut = EmptyString
  /\ rpErr = NoError
  /\ storage = <<>>
  /\ result = ZeroResult
  /\ parserOutput = EmptyString
  /\ err = NoError

\* lines 37-40: the arguments of the node command
NodeArgs(path) == IF path /= "" THEN <<parserPath, path>> ELSE <<parserPath>>

\* line 44: the source goes through the stdin pipe only without a file path
UsesPipe(path) == path = ""

\* lines 37-44: build the command and pick the input channel
BuildCommand ==
  /\ ppc = "start"
  /\ nodeArgs' = NodeArgs(filePath)
  /\ ppc' = IF UsesPipe(filePath) THEN "pipe" ELSE "output"
  /\ UNCHANGED <<dynVars, filePath, jsSource, pipeState, pipeBuf, procState, proc,
                 rpOut, rpErr, storage, result, parserOutput, err>>

\* lines 48, 52, 56, 62: runParser returns "" and the error
RunParserFails(e) ==
  /\ rpOut' = EmptyString
  /\ rpErr' = e
  /\ ppc' = "ran"

\* line 46: cmd.StdinPipe()
StdinPipe ==
  /\ ppc = "pipe"
  /\ \/ /\ pipeState' = "open"
        /\ ppc' = "write"
        /\ UNCHANGED <<rpOut, rpErr>>
     \/ /\ RunParserFails(GoError("pipe", 0, EmptyString,
                                  "runParser failed to create pipe"))
        /\ UNCHANGED pipeState
  /\ UNCHANGED <<dynVars, filePath, jsSource, nodeArgs, pipeBuf, procState, proc,
                 storage, result, parserOutput, err>>

\* the bytes a write of src leaves in the pipe when it returns without error
WrittenShort(src) == IF Len(src) > 0 THEN SubSeq(src, 1, Len(src) - 1) ELSE src

Written(src) == src

\* line 51: pipe.Write([]byte(jsSource)).  Nothing reads the pipe yet (the
\* process is started by cmd.Output), so the write returns only when the
\* whole source fits the pipe's buffer.
PipeWrite ==
  /\ ppc = "write"
  /\ Len(jsSource) <= PipeCap
  /\ \/ /\ pipeBuf' = Written(jsSource)
        /\ ppc' = "close"
        /\ UNCHANGED <<rpOut, rpErr>>
     \/ /\ RunParserFails(GoError("write", 0, EmptyString,
                                  "runParser failed to write source string to pipe"))
        /\ UNCHANGED pipeBuf
  /\ UNCHANGED <<dynVars, filePath, jsSource, nodeArgs, pipeState, procState, proc,
                 storage, result, parserOutput, err>>

\* line 51, source larger than the pipe's buffer: the write fills the
\* buffer and blocks; no reader exists, so it never returns
PipeWriteBlocks ==
  /\ ppc = "write"
  /\ Len(jsSource) > PipeCap
  /\ pipeBuf' = SubSeq(jsSource, 1, PipeCap)
  /\ ppc' = "blocked"
  /\ UNCHANGED <<dynVars, filePath, jsSource, nodeArgs, pipeState, procState, proc,
                 rpOut, rpErr, storage, result, parserOutput, err>>

\* line 55: pipe.Close()
PipeClose ==
  /\ ppc = "close"
  /\ \/ /\ pipeState' = "closed"
        /\ ppc' = "output"
        /\ UNCHANGED <<rpOut, rpErr>>
     \/ /\ RunParserFails(GoError("close", 0, EmptyString,
                                  "runParser failed to close pipe"))
        /\ UNCHANGED pipeState
  /\ UNCHANGED <<dynVars, filePath, jsSource, nodeArgs, pipeBuf, procState, proc,
                 storage, result, parserOutput, err>>

\* line 60: cmd.Output() starts the process and waits for it; starting can
\* fail (node not found), which is no *exec.ExitError
StartProcess ==
  /\ ppc = "output"
  /\ \/ /\ procState' = "running"
        /\ ppc' = "waiting"
        /\ UNCHANGED <<rpOut, rpErr>>
     \/ /\ RunParserFails(GoError("exec", 0, EmptyString, "executable file not found"))
        /\ UNCHANGED procState
  /\ UNCHANGED <<dynVars, filePath, jsSource, nodeArgs, pipeState, pipeBuf, proc,
                 storage, result, parserOutput, err>>

\* lines 60-65: what runParser returns once the process has exited with
\* the given code: cmd.Output() yields the standard output and, for a
\* non-zero exit code, an *exec.ExitError holding the captured standard
\* error; on an error runParser returns "" instead of the output
OutputResult(code, out, errText) ==
  IF code = 0
    THEN [out |-> out, err |-> NoError]
    ELSE [out |-> EmptyString, err |-> ExitError(code, errText)]

\* line 60: the process exits and cmd.Output() returns
ProcessExits ==
  /\ ppc = "waiting"
  /\ \E code \in ExitCodes, out \in Stdouts, errText \in Stderrs :
       /\ proc' = [code |-> code, stdout |-> out, stderr |-> errText]
       /\ rpOut' = OutputResult(code, out, errText).out
       /\ rpErr' = OutputResult(code, out, errText).err
  /\ procState' = "exited"
  /\ ppc' = "ran"
  /\ UNCHANGED <<dynVars, filePath, jsSource, nodeArgs, pipeState, pipeBuf,
                 storage, result, parserOutput, err>>

\* lines 78-147: parseJS handles what runParser returned, and returns or panics
ParseJSReturns ==
  /\ ppc = "ran"
  /\ \E o \in {ParseJS(rpOut, rpErr)} :
        /\ storage' = o.storage
        /\ result' = o.result
        /\ parserOutput' = o.parserOutput
        /\ err' = o.err
        /\ ppc' = IF o.panicked THEN "panicked" ELSE "returned"
  /\ UNCHANGED <<dynVars, filePath, jsSource, nodeArgs, pipeState, pipeBuf, procState,
                 proc, rpOut, rpErr>>

\* ---------------------------------------------------------- specifications
\* the adapter while the walk is being checked: not called
ParseIdle ==
  /\ filePath = ""
  /\ jsSource = <<>>
  /\ ppc = "idle"
  /\ nodeArgs = <<>>
  /\ pipeState = "none"
  /\ pipeBuf = <<>>
  /\ procState = "notStarted"
  /\ proc = NoProc
  /\ rpOut = EmptyString
  /\ rpErr = NoError
  /\ storage = <<>>
  /\ result = ZeroResult
  /\ parserOutput = EmptyString
  /\ err = NoError

\* the walk while the adapter is being checked: not called
DynamicIdle ==
  /\ phases = <<>>
  /\ idx = 1
  /\ pc = "idle"
  /\ results = [StraceSummary |-> EmptyMap, FileWrites |-> EmptyMap]
  /\ lastRunPhase = ZeroPhase
  /\ lastStatus = EmptyStatus
  /\ lastError = Nil
  /\ calls = <<>>
  /\ outcomes = <<>>
  /\ reports = <<>>

vars == <<dynVars, parseVars>>

\* one call of RunDynamicAnalysis
Init == InitDynamic /\ ParseIdle

Next ==
  \/ CallSandbox
  \/ \E s \in Statuses : SandboxReturnsResult(s)
  \/ \E e \in SandboxErrors : SandboxReturnsError(e)
  \/ LoopExit
  \/ Report
  \/ Return

Spec == Init /\ [][Next]_vars

\* one call of parseJS
InitParseJS == InitParse /\ DynamicIdle

NextParseJS ==
  \/ BuildCommand
  \/ StdinPipe
  \/ PipeWrite
  \/ PipeWriteBlocks
  \/ PipeClose
  \/ StartProcess
  \/ ProcessExits
  \/ ParseJSReturns

SpecParse == InitParseJS /\ [][NextParseJS]_vars

\* one call of parseJS that keeps running: the calling goroutine takes its
\* next step whenever it has one, and a started parser process exits
SpecParseFair == SpecParse /\ WF_vars(NextParseJS)

\* -------------------------------------------------- claims on the walk
\* the call has returned to its caller
Returned == pc = "done"

\* number of the last invocation of the sandbox
LastCall == Len(outcomes)

\* the phases at positions 1..k of the phase sequence
PhasesUpTo(k) == {phases[j] : j \in 1..k}

\* positions 1..k-1 returned a completed result
CompletedBefore(k) ==
  \A j \in 1..(k-1) :
    /\ outcomes[j].err = Nil
    /\ outcomes[j].result.StraceSummary.Status = StatusCompleted

\* the walk ended on a result whose status is not "completed"
EndedOnNonCompletion ==
  /\ LastCall >= 1
  /\ CompletedBefore(LastCall)
  /\ outcomes[LastCall].err = Nil
  /\ outcomes[LastCall].result.StraceSummary.Status /= StatusCompleted

\* the walk ended on an infrastructure error
EndedOnInfraError ==
  /\ LastCall >= 1
  /\ CompletedBefore(LastCall)
  /\ outcomes[LastCall].err /= Nil

\* every phase of a non-empty sequence returned a completed result
AllCompleted ==
  /\ Len(phases) >= 1
  /\ LastCall = Len(phases)
  /\ CompletedBefore(LastCall + 1)

\* C1: when phases p1..p(k-1) complete and pk returns a result whose status
\* is not "completed", the returned results hold outcomes for exactly
\* p1..pk (pk's own outcome included), the returned last phase is pk, the
\* returned status is pk's status and the returned error is nil.
C1_SubjectNonCompletion ==
  (Returned /\ EndedOnNonCompletion) =>
    LET k == LastCall
        r == outcomes[k].result
    IN /\ Keys(results.StraceSummary) = PhasesUpTo(k)
       /\ Keys(results.FileWrites) = PhasesUpTo(k)
       /\ results.StraceSummary[phases[k]] = r.StraceSummary
       /\ results.FileWrites[phases[k]] = r.FileWrites
       /\ lastRunPhase = phases[k]
       /\ lastStatus = r.StraceSummary.Status
       /\ lastError = Nil

C1_Witness ==
  /\ Returned
  /\ EndedOnNonCompletion
  /\ LastCall = 2
  /\ Len(phases) = 3
  /\ Cardinality(Keys(results.FileWrites)) = 2

\* C2: when phases p1..p(k-1) complete and the sandbox invocation for pk
\* fails with an error, the returned results hold outcomes for exactly
\* p1..p(k-1), the returned last phase is pk, the returned status is empty
\* and the returned error is the error the invocation produced.
C2_InfrastructureFailure ==
  (Returned /\ EndedOnInfraError) =>
    LET k == LastCall
    IN /\ Keys(results.StraceSummary) = PhasesUpTo(k - 1)
       /\ Keys(results.FileWrites) = PhasesUpTo(k - 1)
       /\ lastRunPhase = phases[k]
       /\ lastStatus = EmptyStatus
       /\ lastError /= Nil
       /\ lastError = outcomes[k].err

C2_Witness ==
  /\ Returned
  /\ EndedOnInfraError
  /\ LastCall = 2
  /\ Cardinality(Keys(results.StraceSummary)) = 1

\* C3: when every phase of a non-empty sequence returns a completed result,
\* the returned results hold an outcome for every phase, the returned last
\* phase is the last of the sequence, the returned status is "completed"
\* and the returned error is nil.
C3_FullSuccess ==
  (Returned /\ AllCompleted) =>
    /\ Keys(results.StraceSummary) = PhasesUpTo(Len(phases))
    /\ Keys(results.FileWrites) = PhasesUpTo(Len(phases))
    /\ \A j \in 1..Len(phases) :
         (\A i \in (j+1)..Len(phases) : phases[i] /= phases[j]) =>
           /\ results.StraceSummary[phases[j]] = outcomes[j].result.StraceSummary
           /\ results.FileWrites[phases[j]] = outcomes[j].result.FileWrites
    /\ lastRunPhase = phases[Len(phases)]
    /\ lastStatus = StatusCompleted
    /\ lastError = Nil

C3_Witness ==
  /\ Returned
  /\ AllCompleted
  /\ Len(phases) = 3
  /\ Cardinality(Keys(results.StraceSummary)) = 3

\* C7: the sandbox is invoked at most once per position of the phase
\* sequence, in sequence order (the invoked positions are a prefix of the
\* sequence, each with the phase at that position); an invocation starts
\* only after the previous one has returned; and no invocation follows one
\* that returned an error or a status other than "completed".
C7_Sequencing ==
  /\ Len(calls) <= Len(phases)
  /\ \A j \in 1..Len(calls) :
       /\ calls[j].pos = j
       /\ calls[j].phase = phases[j]
  /\ Len(outcomes) <= Len(calls)
  /\ Len(calls) <= Len(outcomes) + 1
  /\ (Len(calls) = Len(outcomes) + 1) <=> (pc = "running")
  /\ \A j \in 1..(Len(calls) - 1) :
       /\ j <= Len(outcomes)
       /\ outcomes[j].err = Nil
       /\ outcomes[j].result.StraceSummary.Status = StatusCompleted

C7_Witness ==
  /\ Returned
  /\ Len(phases) = 3
  /\ Len(calls) = 2
  /\ outcomes[1].result.StraceSummary.Status = StatusCompleted
  /\ outcomes[2].err = Nil
  /\ outcomes[2].result.StraceSummary.Status /= StatusCompleted

\* C9: whenever the returned error is non-nil, the returned results hold no
\* entry for the returned last phase, neither in StraceSummary nor in
\* FileWrites (the guarantee of the doc comment of RunDynamicAnalysis).
C9_NoEntryForFailedPhase ==
  (Returned /\ lastError /= Nil) =>
    /\ lastRunPhase \notin Keys(results.StraceSummary)
    /\ lastRunPhase \notin Keys(results.FileWrites)

\* -------------------------------------------------- claims on the adapter
\* parseJS has returned to its caller
ParseReturned == ppc = "returned"

\* the parser process ran and exited with the given code
ExitedWith(code) == procState = "exited" /\ proc.code = code

NoContent(res) ==
  /\ res.Identifiers = <<>>
  /\ res.Literals = <<>>
  /\ res.Comments = <<>>

\* C4: whenever the parser process exits with code 33, parseJS returns a
\* result with validity false and empty identifier, literal and comment
\* sequences, an empty output string and a nil error, whatever the process
\* wrote to standard output or standard error.
C4_SyntaxErrorSentinel ==
  (ParseReturned /\ ExitedWith(syntaxErrorExitCode)) =>
    /\ result.ValidInput = FALSE
    /\ NoContent(result)
    /\ parserOutput = EmptyString
    /\ err = NoError

C4_Witness ==
  /\ ParseReturned
  /\ ExitedWith(syntaxErrorExitCode)
  /\ proc.stdout.form = "array"
  /\ Len(proc.stdout.items) = 2
  /\ proc.stderr /= EmptyString
  /\ result.ValidInput = FALSE

\* C5: whenever the parser exits with a non-zero code other than 33,
\* parseJS returns a non-nil error, the execution error of that exit,
\* together with the captured standard-error text as the output string, and
\* no identifiers, literals or comments.
C5_GenuineFailure ==
  (ParseReturned /\ procState = "exited" /\ proc.code \notin {0, syntaxErrorExitCode}) =>
    /\ err /= NoError
    /\ err = ExitError(proc.code, proc.stderr)
    /\ parserOutput = proc.stderr
    /\ NoContent(result)

C5_Witness ==
  /\ ParseReturned
  /\ ExitedWith(1)
  /\ proc.stderr /= EmptyString
  /\ parserOutput = proc.stderr
  /\ Len(proc.stdout.items) = 1

\* a record on the wire one of whose members has a JSON type the field of
\* parserOutputElement cannot take
Mistyped(w) ==
  \/ w.type.t \notin {"string", "null", "absent"}
  \/ w.subtype.t \notin {"string", "null", "absent"}
  \/ w.pos.t \notin {"array", "null", "absent"}

\* the text does not decode as a JSON array of symbol records: it is
\* empty, is no JSON, is cut off, holds a JSON value of another type, or
\* holds a record with a mistyped member
NotDecodable(text) ==
  \/ text.form \in {"empty", "plain", "truncated", "scalar"}
  \/ /\ text.form \in {"array", "trailing"}
     /\ \E i \in 1..Len(text.items) : Mistyped(text.items[i])

\* C6: when the parser exits with code 0 but its standard output does not
\* decode as a JSON array of symbol records, parseJS returns a non-nil
\* error and a result whose identifier, literal and comment sequences are
\* all empty: no partially decoded record is returned.
C6_DecodeError ==
  (ParseReturned /\ ExitedWith(0) /\ NotDecodable(proc.stdout)) =>
    /\ err /= NoError
    /\ NoContent(result)

C6_Witness ==
  /\ ParseReturned
  /\ ExitedWith(0)
  /\ NotDecodable(proc.stdout)
  /\ Len(storage) = 2
  /\ storage[1].SymbolType = Identifier
  /\ CheckIdentifierType(storage[1].SymbolSubtype) = "Function"
  /\ err /= NoError

\* C8: one input channel per call.  With a file path the parser gets that
\* path as its single extra argument, no pipe is made and nothing is
\* written to standard input.  Without one the parser gets no extra
\* argument, and once the process is started (the adapter waits for its
\* output) the whole source has been written to the pipe and the pipe is
\* closed.  A failure to make, write or close the pipe makes runParser
\* return "" and that error with the process never started.
C8_InputProtocol ==
  /\ (ppc /= "start" /\ filePath /= "") =>
       /\ nodeArgs = <<parserPath, filePath>>
       /\ pipeState = "none"
       /\ pipeBuf = <<>>
  /\ (ppc /= "start" /\ filePath = "") =>
       /\ nodeArgs = <<parserPath>>
       /\ (procState /= "notStarted" \/ ppc \in {"output", "waiting"}) =>
            /\ pipeBuf = jsSource
            /\ pipeState = "closed"
  /\ rpErr.kind \in {"pipe", "write", "close"} =>
       /\ procState = "notStarted"
       /\ ppc \in {"ran", "returned"}
       /\ rpOut = EmptyString
       /\ ParseReturned => (err = rpErr /\ result = ZeroResult)

C8_Witness ==
  /\ ppc = "waiting"
  /\ filePath = ""
  /\ Len(jsSource) = PipeCap
  /\ pipeBuf = jsSource
  /\ pipeState = "closed"

\* C10 as stated: over every outcome of parseJS the validity flag is false
\* exactly when the parser exited with code 33, and whenever it is false
\* all three sequences are empty and no error is returned.
C10_ValidityOriginal ==
  ParseReturned =>
    /\ (result.ValidInput = FALSE) <=> ExitedWith(syntaxErrorExitCode)
    /\ (result.ValidInput = FALSE) => (NoContent(result) /\ err = NoError)

\* C10 amended: over every outcome of parseJS the validity flag is false
\* exactly when the parser exited with code 33 or parseJS returns a
\* non-nil error; whenever it is false all three sequences are empty; and
\* an exit with code 33 returns no error.
C10_ValidityAmended ==
  ParseReturned =>
    /\ (result.ValidInput = FALSE) <=>
         (ExitedWith(syntaxErrorExitCode) \/ err /= NoError)
    /\ (result.ValidInput = FALSE) => NoContent(result)
    /\ ExitedWith(syntaxErrorExitCode) => err = NoError

C10_Witness ==
  /\ ParseReturned
  /\ result.ValidInput = FALSE
  /\ err /= NoError
  /\ ExitedWith(0)

\* parseJS decoded the output of a successful parser run and went through
\* the conversion loop, to its end or to a panic
Converted ==
  /\ ppc \in {"returned", "panicked"}
  /\ ExitedWith(0)
  /\ err = NoError

\* the result the conversion loop starts from (line 97)
ValidEmptyResult == [ZeroResult EXCEPT !.ValidInput = TRUE]

\* a decoded record whose payload has the wrong shape: an identifier or a
\* comment whose data is not text, a literal whose "raw" attribute is
\* missing or not text
ShapeViolation(element) ==
  \/ element.SymbolType \in {Identifier, Comment} /\ ~IsString(element.Data)
  \/ element.SymbolType = Literal /\ ~IsString(ExtraLookup(element.Extra, "raw"))

WellShaped(element) == ~ShapeViolation(element)

\* C11: when a decoded record has a payload of the wrong shape, parseJS
\* does not crash and does not abort the batch: it returns, and the records
\* of the right shape are all converted.
C11_ShapeViolationRecoverable ==
  (Converted /\ \E i \in 1..Len(storage) : ShapeViolation(storage[i])) =>
    /\ ppc = "returned"
    /\ result = Dispatch(SelectSeq(storage, WellShaped), 1, ValidEmptyResult).result

\* the conversion loop ran to its end over records that are all well-shaped
ConvertedWellShaped ==
  /\ ParseReturned
  /\ ExitedWith(0)
  /\ err = NoError
  /\ \A i \in 1..Len(storage) : WellShaped(storage[i])

\* an Identifier record whose subtype classifies to a recognised role
IsKeptIdentifier(element) ==
  /\ element.SymbolType = Identifier
  /\ CheckIdentifierType(element.SymbolSubtype) \notin {"Other", "Unknown"}

IsLiteralRecord(element) == element.SymbolType = Literal

IsCommentRecord(element) == element.SymbolType = Comment

\* C12: on a successful decode of records that are all well-shaped, the
\* identifiers are exactly the Identifier records whose subtype classifies
\* to something other than Other or Unknown, the literals exactly the
\* Literal records and the comments exactly the Comment records, each in
\* the order of the decoded list and with the record's position unchanged.
C12_OrderPreservingDispatch ==
  ConvertedWellShaped =>
    LET ids  == SelectSeq(storage, IsKeptIdentifier)
        lits == SelectSeq(storage, IsLiteralRecord)
        coms == SelectSeq(storage, IsCommentRecord)
    IN /\ Len(result.Identifiers) = Len(ids)
       /\ \A i \in 1..Len(ids) :
            /\ result.Identifiers[i].Name = ids[i].Data.v
            /\ result.Identifiers[i].Type = CheckIdentifierType(ids[i].SymbolSubtype)
            /\ result.Identifiers[i].Type \notin {"Other", "Unknown"}
            /\ result.Identifiers[i].Pos = ids[i].Pos
       /\ Len(result.Literals) = Len(lits)
       /\ \A i \in 1..Len(lits) :
            /\ result.Literals[i].Type = lits[i].SymbolSubtype
            /\ result.Literals[i].RawValue = ExtraLookup(lits[i].Extra, "raw").v
            /\ result.Literals[i].Pos = lits[i].Pos
       /\ Len(result.Comments) = Len(coms)
       /\ \A i \in 1..Len(coms) :
            /\ result.Comments[i].Type = coms[i].SymbolSubtype
            /\ result.Comments[i].Data = coms[i].Data.v
            /\ result.Comments[i].Pos = coms[i].Pos

C12_Witness ==
  /\ ConvertedWellShaped
  /\ Len(storage) = 2
  /\ Len(result.Identifiers) = 2
  /\ result.Identifiers[1].Name = <<"p">>
  /\ result.Identifiers[1].Pos = <<1, 6>>
  /\ result.Identifiers[2].Name = <<"f">>
  /\ result.Identifiers[2].Pos = <<1, 4>>

\* a record of a kind the conversion loop converts
IsHandledKind(element) == element.SymbolType \in {Identifier, Literal, Comment}

\* C13: a record whose kind is Info, Error or unrecognised contributes
\* nothing to the result, causes no error and does not stop the loop: the
\* loop ends as it would on the decoded list without those records, and
\* when it returns the result has validity true and the error is nil.
C13_UnhandledKindsTolerated ==
  Converted =>
    LET d == Dispatch(SelectSeq(storage, IsHandledKind), 1, ValidEmptyResult)
    IN /\ result = d.result
       /\ (ppc = "panicked") <=> d.panicked
       /\ ParseReturned => (result.ValidInput = TRUE /\ err = NoError)

C13_Witness ==
  /\ Converted
  /\ ParseReturned
  /\ Len(storage) = 2
  /\ storage[1].SymbolType = <<"Whitespace">>
  /\ storage[2].SymbolType = Comment
  /\ Len(result.Comments) = 1
  /\ result.ValidInput = TRUE

\* parseJS returned the conversion of a successfully decoded list
ConvertedAll ==
  /\ ParseReturned
  /\ ExitedWith(0)
  /\ err = NoError

\* the Literal records of the decoded list, in order
LiteralRecords == SelectSeq(storage, IsLiteralRecord)

\* a Literal record whose category is numeric and whose value arrived as text
NumericAsText(element) ==
  /\ element.SymbolSubtype = <<"Numeric">>
  /\ element.Data.t = "string"

\* the value the big-integer rule gives a literal record when the integer
\* is parsed from text
BigIntegerRule(element, text) ==
  IF NumericAsText(element) /\ SetString(text).valid
    THEN GoValue("*big.Int", <<>>, SetString(text).n)
    ELSE element.Data

\* C14 as stated: for a numeric literal whose value arrived as text the
\* stored value is the big integer parsed from the literal's raw text when
\* that parse succeeds and the original text when it fails; any other
\* literal keeps its decoded value.
C14_BigIntegerRuleOriginal ==
  ConvertedAll =>
    /\ Len(result.Literals) = Len(LiteralRecords)
    /\ \A i \in 1..Len(LiteralRecords) :
         result.Literals[i].Value =
           BigIntegerRule(LiteralRecords[i],
                          ExtraLookup(LiteralRecords[i].Extra, "raw").v)

\* C14 amended: for a numeric literal whose value arrived as text the
\* stored value is the big integer parsed from that value text (the base
\* taken from the text's prefix, base 10 without one) when the parse
\* succeeds and the value text unchanged when it fails; any other literal
\* keeps its decoded value.
C14_BigIntegerRuleAmended ==
  ConvertedAll =>
    /\ Len(result.Literals) = Len(LiteralRecords)
    /\ \A i \in 1..Len(LiteralRecords) :
         result.Literals[i].Value =
           BigIntegerRule(LiteralRecords[i], LiteralRecords[i].Data.v)

C14_Witness ==
  /\ ConvertedAll
  /\ Len(result.Literals) = 2
  /\ result.Literals[1].RawValue = <<"1", "9", "n">>
  /\ result.Literals[1].Value = GoValue("*big.Int", <<>>, 19)
  /\ result.Literals[2].Value = GoValue("string", <<"1", ".", "5">>, 0)

\* the record's extra-attributes map holds the key "array" with the
\* boolean value true
HasArrayTrue(element) == element.Extra.present /\ element.Extra.array = JTrue

\* C15: every Literal record yields a literal whose InArray flag is true
\* exactly when the record's extra-attributes map holds the key "array"
\* with the boolean value true; it is false when the key is absent, when
\* the map itself is absent, and when the value is false or no boolean.
C15_InArrayFlag ==
  (Converted /\ \A i \in 1..Len(storage) : IsLiteralRecord(storage[i])) =>
    /\ Len(result.Literals) = Len(storage)
    /\ \A i \in 1..Len(storage) :
         result.Literals[i].InArray = HasArrayTrue(storage[i])

\* ------------------------------------------ further claims on the walk
\* some invocation of the sandbox returned an infrastructure error
InfraErrorOccurred == \E j \in 1..Len(outcomes) : outcomes[j].err /= Nil

\* C16: every invocation makes exactly one report, after the walk has
\* ended and before returning: an error report carrying the last attempted
\* phase and the infrastructure error exactly when such an error occurred,
\* otherwise a result report carrying the last phase reached and the final
\* status; what is reported equals what is returned.
C16_Reporting ==
  /\ pc \in {"loop", "running", "report"} => reports = <<>>
  /\ pc \in {"return", "done"} =>
       /\ Len(reports) = 1
       /\ Len(calls) = Len(outcomes)
       /\ reports[1].kind \in {"error", "result"}
       /\ (reports[1].kind = "error") <=> InfraErrorOccurred
       /\ reports[1].phase = lastRunPhase
       /\ reports[1].kind = "error" =>
            /\ reports[1].error = lastError
            /\ reports[1].error = outcomes[Len(outcomes)].err
            /\ reports[1].phase = phases[Len(calls)]
       /\ reports[1].kind = "result" =>
            /\ reports[1].status = lastStatus
            /\ lastError = Nil

C16_Witness ==
  /\ Returned
  /\ Len(calls) = 2
  /\ InfraErrorOccurred
  /\ Len(reports) = 1
  /\ reports[1].kind = "error"
  /\ reports[1].phase = phases[2]

\* the entries of map m are all still in map n, unchanged
Preserved(m, n) == \A p \in Keys(m) : p \in Keys(n) /\ n[p] = m[p]

\* C17: during a walk over any finite ordered phase sequence, an outcome
\* once inserted for a phase is never removed nor replaced by a different
\* outcome, the set of recorded phases only grows, and a step in which the
\* sandbox returns an infrastructure error leaves the results unchanged.
C17_MonotonicAggregate ==
  [][ /\ Preserved(results.StraceSummary, results'.StraceSummary)
      /\ Preserved(results.FileWrites, results'.FileWrites)
      /\ (Len(outcomes') > Len(outcomes) /\ outcomes'[Len(outcomes')].err /= Nil)
           => results' = results ]_vars

\* no phase occurs twice in the phase sequence
DistinctPhases ==
  \A i, j \in 1..Len(phases) : i /= j => phases[i] /= phases[j]

\* C19: over a sequence of distinct phases, in every state of the walk and
\* in the returned results, StraceSummary and FileWrites have the same
\* keys, every recorded phase other than the last attempted one has status
\* "completed", and a returned status other than "completed" (and not
\* empty) is the recorded status of the last attempted phase.
C19_AtMostOneNonCompleted ==
  DistinctPhases =>
    /\ Keys(results.StraceSummary) = Keys(results.FileWrites)
    /\ \A p \in Keys(results.StraceSummary) :
         (Len(calls) = 0 \/ p /= phases[Len(calls)]) =>
           results.StraceSummary[p].Status = StatusCompleted
    /\ (Returned /\ lastStatus \notin {StatusCompleted, EmptyStatus}) =>
         /\ Len(calls) >= 1
         /\ lastRunPhase = phases[Len(calls)]
         /\ lastRunPhase \in Keys(results.StraceSummary)
         /\ results.StraceSummary[lastRunPhase].Status = lastStatus

C19_Witness ==
  /\ Returned
  /\ DistinctPhases
  /\ Len(phases) = 3
  /\ Len(calls) = 3
  /\ lastStatus = "error_timeout"
  /\ Cardinality(Keys(results.StraceSummary)) = 3

\* C20: with an empty phase sequence RunDynamicAnalysis never invokes the
\* sandbox and returns empty results, the zero-value phase, an empty
\* status and a nil error, after one result report with that empty status.
C20_EmptyPhaseSequence ==
  Len(phases) = 0 =>
    /\ calls = <<>>
    /\ outcomes = <<>>
    /\ Returned =>
         /\ results = [StraceSummary |-> EmptyMap, FileWrites |-> EmptyMap]
         /\ lastRunPhase = ZeroPhase
         /\ lastStatus = EmptyStatus
         /\ lastError = Nil
         /\ reports = <<[kind |-> "result", phase |-> ZeroPhase,
                         status |-> EmptyStatus, error |-> Nil]>>

C20_Witness ==
  /\ Len(phases) = 0
  /\ Returned
  /\ Len(reports) = 1
  /\ reports[1].kind = "result"

\* C18: a call of parseJS with in-memory source of any size, also a size
\* above the capacity of the stdin pipe's buffer, eventually ends, given
\* that the parser process once started reads its input and exits.
C18_InMemoryTermination ==
  (ppc = "start" /\ filePath = "") ~> (ppc \in {"returned", "panicked"})

====
